---- MODULE Spec2Model ----
(***************************************************************************)
(* Model of pysph/sph/integrator_opencl_helper.py: the OpenCL integrator   *)
(* helper (IntegratorOpenCLHelper, which builds the kernel / host-hook     *)
(* call tables) and the runtime that drives one timestep                   *)
(* (OpenCLIntegrator).                                                     *)
(***************************************************************************)
EXTENDS Integers, Sequences, FiniteSets, TLC

(***************************************************************************)
(* Bounds of the model.                                                    *)
(***************************************************************************)
MaxProgLen == 2   \* longest enumerated one_timestep body (plus the fixed scenarios)
MaxCount == 1     \* particle counts range over 0..MaxCount
MaxChanges == 1   \* particle-array changes (add/remove/reallocate) per behaviour

(***************************************************************************)
(* Names.  Python compares strings lexicographically; NameRank and         *)
(* MethodRank give the position of each name in that order.                *)
(***************************************************************************)
DestNames == {"boundary", "fluid"}
NameRank == [boundary |-> 1, fluid |-> 2]
StageMethods == {"stage1", "stage2"}
MethodNames == {"initialize"} \cup StageMethods
MethodRank == [initialize |-> 1, stage1 |-> 2, stage2 |-> 3]

None == "None"
NoSize == <<>>        \* the None that fills the global and local size slots of all_args
Queue == "queue"      \* acceleration_eval_helper._queue

\* 'py_' + method
PyName(method) == <<"py_", method>>
\* an array argument name 'd_' + field, and x[2:] which strips the prefix
ArrayArg(field) == <<"d_", field>>
StripPrefix(x) == x[2]

(***************************************************************************)
(* Ordered dicts (insertion order) as sequences of [key, val], and         *)
(* defaultdict(dict) as a function from the keys present to such dicts.    *)
(***************************************************************************)
HasKey(s, k) == \E j \in 1..Len(s) : s[j].key = k
Put(s, k, v) ==
    IF HasKey(s, k)
    THEN [j \in 1..Len(s) |-> IF s[j].key = k THEN [key |-> k, val |-> v] ELSE s[j]]
    ELSE Append(s, [key |-> k, val |-> v])
Keys(s) == [j \in 1..Len(s) |-> s[j].key]
DGet(dd, k) == IF k \in DOMAIN dd THEN dd[k] ELSE <<>>
DTouch(dd, k) == [x \in DOMAIN dd \cup {k} |-> IF x \in DOMAIN dd THEN dd[x] ELSE <<>>]
DPut(dd, k, k2, v) == [x \in DOMAIN dd \cup {k} |-> IF x = k THEN Put(DGet(dd, k), k2, v) ELSE dd[x]]
EmptyDict == [x \in {} |-> <<>>]

\* sorted(S) for a set of names ordered by rank
RECURSIVE Sorted(_, _)
Sorted(S, rank) ==
    IF S = {} THEN <<>>
    ELSE LET m == CHOOSE x \in S : \A y \in S : rank[x] <= rank[y]
         IN <<m>> \o Sorted(S \ {m}, rank)

VARIABLES
    steppers,      \* integrator.steppers: dest name -> update rule (stage methods, py_ hooks)
    program,       \* the authored timestep program (the body of integrator.one_timestep)
    array_names,   \* the names acceleration_eval_helper._array_map holds
    compiled_object,  \* what set_compiled_object installed on the integrator
    code,          \* the generated kernels: kernel name -> names of its arguments
    one_timestep,  \* the runtime's one_timestep: the statements it executes
    py_data, data, py_calls, calls,   \* the helper's tables
    methods,       \* names bound on the runtime by _setup_methods
    use_double,    \* OpenCLIntegrator._use_double
    nnps, parallel_manager, post_stage_callback,
    attrs,         \* the time attributes assigned so far (__init__ assigns none)
    t, orig_t, dt, \* runtime time state
    step_args,     \* the arguments (t, dt) of the latest call of step
    pc,            \* control location
    error,         \* the exception that ended the call, if any
    ip,            \* index of the next operation of one_timestep
    method,        \* the method _do_stage is running
    todo,          \* the iterations _do_stage has still to make
    extra_args,    \* _do_stage's extra_args
    rest,          \* _do_stage's rest (resolved buffers)
    caller,        \* who called compute_accelerations: "step" or "user"
    count, gen,    \* live particle count and buffer generation of each array
    changes,       \* number of array changes so far
    trace          \* calls made to collaborators since the last entry point was called

helperVars == <<py_data, data, code, py_calls, calls>>
cfgVars == <<steppers, program, use_double, array_names>>
boundVars == <<methods, compiled_object>>
wireVars == <<nnps, parallel_manager, post_stage_callback>>
timeVars == <<attrs, t, orig_t, dt, step_args>>
stageVars == <<method, todo, extra_args, rest>>
envVars == <<count, gen, changes>>
vars == <<steppers, program, array_names, one_timestep, py_data, data, code, py_calls,
          calls, methods, compiled_object, use_double, nnps, parallel_manager,
          post_stage_callback, attrs, t, orig_t, dt, step_args, pc, error, ip, method, todo,
          extra_args, rest, caller, count, gen, changes, trace>>

(***************************************************************************)
(* Update rules and timestep programs.                                     *)
(***************************************************************************)
RunStage(name) == [op |-> "RunStage", name |-> name, mult |-> 0, stage |-> 0]
RecomputeAccelerations == [op |-> "RecomputeAccelerations", name |-> "", mult |-> 0, stage |-> 0]
\* self.do_post_stage(mult*dt, stage)
PostStageMark(mult, stage) == [op |-> "PostStageMark", name |-> "", mult |-> mult, stage |-> stage]

Ops == {RunStage(m) : m \in MethodNames} \cup {RecomputeAccelerations}
          \cup {PostStageMark(1, 1), PostStageMark(2, 2)}

RECURSIVE SeqsUpTo(_, _)
SeqsUpTo(S, n) ==
    IF n = 0 THEN {<<>>}
    ELSE LET shorter == SeqsUpTo(S, n - 1)
         IN shorter \cup {Append(s, x) : s \in shorter, x \in S}


(***************************************************************************)
(* Collaborators of the helper that live outside this file.                *)
(***************************************************************************)
Stepper(dest) == (CHOOSE e \in {steppers[j] : j \in 1..Len(steppers)} : e.key = dest).val
StepperKeys == {steppers[j].key : j \in 1..Len(steppers)}

\* IntegratorCythonHelper.get_stepper_method_wrapper_names: initialize, stage1 ... stagen
get_stepper_method_wrapper_names ==
    Sorted({"initialize"} \cup UNION {Stepper(d).stages : d \in StepperKeys}, MethodRank)

\* IntegratorCythonHelper.has_stepper_loop
has_stepper_loop(dest, meth) == meth \in Stepper(dest).stages

\* hasattr(stepper, 'py_' + method)
hasattr_py(dest, meth) == meth \in Stepper(dest).hooks

\* list(d): the destination arrays named in the signature of the stage method
get_array_names(dest, meth) ==
    IF meth = "stage2" THEN <<ArrayArg("u"), ArrayArg("x")>>
    ELSE <<ArrayArg("x"), ArrayArg("u")>>

\* acceleration_eval_helper._array_map, dest.gpu and the stepper's bound py_ method
array_map(dest_name) == <<"ParticleArray", dest_name>>
ArrayName(dest) == dest[2]
Gpu(dest) == <<"gpu", ArrayName(dest)>>
getattr_stepper(dest_name, meth) == <<"bound", dest_name, meth>>
\* getattr(self.program, kernel) wrapped by profile_kernel
getattr_program(kernel) == <<"kernel", kernel>>

(***************************************************************************)
(* IntegratorOpenCLHelper: code generation and the call tables.            *)
(***************************************************************************)
\* mutant: a placeholder hook entry for every stage of a rule that has any hook
get_py_stage_code_Placeholder(tab, dest, meth) ==
    IF Stepper(dest).hooks # {}
    THEN [tab EXCEPT !.py_data = DPut(@, PyName(meth), dest, dest)]
    ELSE tab

get_py_stage_code(tab, dest, meth) ==
    IF hasattr_py(dest, meth)
    THEN [tab EXCEPT !.py_data = DPut(@, PyName(meth), dest, dest)]
    ELSE tab

\* mutant: data[method] is replaced, not updated, so only the last destination stays
get_stepper_kernel_Overwrite(tab, dest, meth) ==
    LET kernel == <<meth, "_", dest>>
        d == get_array_names(dest, meth)
        all_args == d \o <<"t", "dt">>
    IN [tab EXCEPT !.data = [x \in DOMAIN @ \cup {meth} |->
                                IF x = meth
                                THEN <<[key |-> dest, val |-> [kernel |-> kernel, args |-> d]]>>
                                ELSE @[x]],
                   !.code = [x \in DOMAIN @ \cup {kernel} |->
                                IF x = kernel THEN all_args ELSE @[x]]]

\* mutant: the descriptor keeps the array names in another order than the
\* one the kernel signature was generated with
get_stepper_kernel_Reordered(tab, dest, meth) ==
    LET kernel == <<meth, "_", dest>>
        d == get_array_names(dest, meth)
        all_args == d \o <<"t", "dt">>
        stored == [j \in 1..Len(d) |-> d[Len(d) + 1 - j]]
    IN [tab EXCEPT !.data = DPut(@, meth, dest, [kernel |-> kernel, args |-> stored]),
                   !.code = [x \in DOMAIN @ \cup {kernel} |->
                                IF x = kernel THEN all_args ELSE @[x]]]

get_stepper_kernel(tab, dest, meth) ==
    LET kernel == <<meth, "_", dest>>
        d == get_array_names(dest, meth)
        all_args == d \o <<"t", "dt">>
    IN [tab EXCEPT !.data = DPut(@, meth, dest, [kernel |-> kernel, args |-> d]),
                   !.code = [x \in DOMAIN @ \cup {kernel} |->
                                IF x = kernel THEN all_args ELSE @[x]]]

\* mutant: the hook of a stage is registered only where the stage has a kernel
RECURSIVE RenderMethods_HookWithKernel(_, _, _)
RenderMethods_HookWithKernel(tab, dest, ms) ==
    IF ms = <<>> THEN tab
    ELSE LET t2 == IF has_stepper_loop(dest, Head(ms))
                   THEN get_stepper_kernel(get_py_stage_code(tab, dest, Head(ms)),
                                           dest, Head(ms))
                   ELSE tab
         IN RenderMethods_HookWithKernel(t2, dest, Tail(ms))

RECURSIVE RenderMethods(_, _, _)
RenderMethods(tab, dest, ms) ==
    IF ms = <<>> THEN tab
    ELSE LET t1 == get_py_stage_code(tab, dest, Head(ms))
             t2 == IF has_stepper_loop(dest, Head(ms))
                   THEN get_stepper_kernel(t1, dest, Head(ms))
                   ELSE t1
         IN RenderMethods(t2, dest, Tail(ms))

RECURSIVE RenderDests(_, _)
RenderDests(tab, ds) ==
    IF ds = <<>> THEN tab
    ELSE RenderDests(RenderMethods(tab, Head(ds), get_stepper_method_wrapper_names), Tail(ds))

\* mutant: the template visits the destinations in registration order
TemplateDests_Unsorted == Keys(steppers)

\* the destinations in the order the template visits them
TemplateDests == Sorted(StepperKeys, NameRank)

get_code ==
    /\ pc = "new"
    /\ LET tab == RenderDests([py_data |-> py_data, data |-> data, code |-> code],
                              TemplateDests)
       IN /\ py_data' = tab.py_data
          /\ data' = tab.data
          /\ code' = tab.code
    /\ pc' = "generated"
    /\ UNCHANGED <<cfgVars, one_timestep, py_calls, calls, boundVars, wireVars, timeVars,
                   error, ip, stageVars, caller, envVars, trace>>

\* getattr(dest_gpu, x).dev.data: where the device buffer of a field is now
BufferAddress(dest_name, x) == <<dest_name, x, gen[dest_name]>>

\* mutant: the buffer address is taken when the call data is set up
_getter_AtSetup(dest_gpu, x) == <<dest_gpu[2], x, 0>>

\* functools.partial(_getter, dest.gpu, x[2:]) and its evaluation
Getter(dest, x) == [dest_gpu |-> Gpu(dest), x |-> StripPrefix(x)]
_getter(dest_gpu, x) == BufferAddress(dest_gpu[2], x)

\* array_map[dest_name] raises KeyError: the table does not hold the name
KeyError(dest_name) == dest_name \notin array_names

RECURSIVE SetupPyCalls(_, _, _)
SetupPyCalls(tab, meth, info) ==
    IF info = <<>> \/ tab.error # None THEN tab
    ELSE LET dest_name == Head(info).key
             py_meth == getattr_stepper(dest_name, meth)
             dest == array_map(dest_name)
         IN IF KeyError(dest_name)
            THEN [tab EXCEPT !.error = "KeyError"]
            ELSE SetupPyCalls([tab EXCEPT !.py_calls =
                                  DPut(@, meth, dest, [py_meth |-> py_meth, dest |-> dest])],
                              meth, Tail(info))

\* mutant: a destination the table does not hold is left out of the call table
RECURSIVE SetupCalls_SkipMissing(_, _, _)
SetupCalls_SkipMissing(tab, meth, info) ==
    IF info = <<>> \/ tab.error # None THEN tab
    ELSE LET dest_name == Head(info).key
             kernel == Head(info).val.kernel
             args == Head(info).val.args
             dest == array_map(dest_name)
             _args == [j \in 1..Len(args) |-> Getter(dest, args[j])]
             all_args == <<Queue, NoSize, NoSize>> \o _args
             call == getattr_program(kernel)
         IN IF KeyError(dest_name)
            THEN SetupCalls_SkipMissing(tab, meth, Tail(info))
            ELSE SetupCalls_SkipMissing(
                    [tab EXCEPT !.calls =
                        DPut(@, meth, dest, [call |-> call, args |-> all_args, dest |-> dest])],
                    meth, Tail(info))

RECURSIVE SetupCalls(_, _, _)
SetupCalls(tab, meth, info) ==
    IF info = <<>> \/ tab.error # None THEN tab
    ELSE LET dest_name == Head(info).key
             kernel == Head(info).val.kernel
             args == Head(info).val.args
             dest == array_map(dest_name)
             _args == [j \in 1..Len(args) |-> Getter(dest, args[j])]
             all_args == <<Queue, NoSize, NoSize>> \o _args
             call == getattr_program(kernel)
         IN IF KeyError(dest_name)
            THEN [tab EXCEPT !.error = "KeyError"]
            ELSE SetupCalls([tab EXCEPT !.calls =
                                DPut(@, meth, dest,
                                     [call |-> call, args |-> all_args, dest |-> dest])],
                            meth, Tail(info))

\* self.py_data.items() and self.data.items(): the methods in the order their
\* keys were inserted by get_code, which is by the first destination of the
\* entry and then by method
InsertionRank(info, m) == (Cardinality(MethodNames) + 1) * NameRank[info[1].key] + MethodRank[m]
PyDataItems == Sorted(DOMAIN py_data, [k \in DOMAIN py_data |-> InsertionRank(py_data[k], k[2])])
DataItems == Sorted(DOMAIN data, [m \in DOMAIN data |-> InsertionRank(data[m], m)])

RECURSIVE SetupPyLoop(_, _)
SetupPyLoop(tab, ms) ==
    IF ms = <<>> THEN tab
    ELSE SetupPyLoop(SetupPyCalls(tab, Head(ms), py_data[Head(ms)]), Tail(ms))

RECURSIVE SetupLoop(_, _)
SetupLoop(tab, ms) ==
    IF ms = <<>> THEN tab
    ELSE SetupLoop(SetupCalls(tab, Head(ms), data[Head(ms)]), Tail(ms))

\* the two loops of _setup_call_data; the first KeyError ends it
_setup_call_data(tab) == SetupLoop(SetupPyLoop(tab, PyDataItems), DataItems)

\* the statement each operation of the program is written as
Stmt(name, args) == [name |-> name, args |-> args]
Source(op) ==
    CASE op.op = "RunStage" -> Stmt(op.name, <<>>)
      [] op.op = "RecomputeAccelerations" -> Stmt("compute_accelerations", <<>>)
      [] op.op = "PostStageMark" -> Stmt("do_post_stage", <<op.mult, op.stage>>)

\* mutant: the statements are captured in reverse order
get_timestep_code_Reversed ==
    [k \in 1..Len(program) |-> Source(program[Len(program) + 1 - k])]

\* the source of integrator.one_timestep, which _setup_methods executes and binds
get_timestep_code == [k \in 1..Len(program) |-> Source(program[k])]

\* OpenCLIntegrator._setup_methods: the names bound with setattr
_setup_methods == {get_stepper_method_wrapper_names[j] :
                      j \in 1..Len(get_stepper_method_wrapper_names)}

\* mutant: the exception is caught where it was raised and the statement is
\* tried again
Raise_Retry(exc) ==
    /\ pc' = pc
    /\ error' = exc

\* an exception is raised and not caught: it ends the call
Raise(exc) ==
    /\ pc' = "failed"
    /\ error' = exc

\* setup_compiled_module, including OpenCLIntegrator.__init__
setup_compiled_module ==
    /\ pc = "generated"
    /\ LET tab == _setup_call_data([py_calls |-> py_calls, calls |-> calls, error |-> None])
       IN /\ py_calls' = tab.py_calls
          /\ calls' = tab.calls
          /\ IF tab.error # None
             THEN /\ Raise(tab.error)
                  /\ UNCHANGED <<wireVars, one_timestep, methods, compiled_object>>
             ELSE /\ nnps' = None
                  /\ parallel_manager' = None
                  /\ post_stage_callback' = None
                  /\ one_timestep' = get_timestep_code
                  /\ methods' = _setup_methods
                  /\ compiled_object' = "OpenCLIntegrator"
                  /\ pc' = "idle"
                  /\ UNCHANGED error
    /\ UNCHANGED <<cfgVars, py_data, data, code, timeVars, ip, stageVars, caller,
                   envVars, trace>>


(***************************************************************************)
(* The collaborators' side effects: a host hook, a domain-manager update,  *)
(* a post-stage callback or the application between two calls may add or   *)
(* remove particles of an array and may reallocate its buffers.            *)
(***************************************************************************)
EnvChange ==
    /\ changes < MaxChanges
    /\ \E d \in StepperKeys, n \in 0..MaxCount, realloc \in BOOLEAN :
          /\ n # count[d] \/ realloc
          /\ count' = [count EXCEPT ![d] = n]
          /\ gen' = [gen EXCEPT ![d] = IF realloc THEN @ + 1 ELSE @]
    /\ changes' = changes + 1

EnvEffect == UNCHANGED envVars \/ EnvChange

\* the record of one call to a collaborator: what was called, for which stage
\* method and array, with which arguments, by which statement of one_timestep,
\* and (for a kernel launch) the array's live count and buffers at that moment
Event(kind, meth, dest, args, live) ==
    [kind |-> kind, method |-> meth, dest |-> dest, args |-> args, at |-> ip, live |-> live]

(***************************************************************************)
(* OpenCLIntegrator.                                                       *)
(***************************************************************************)
F32Step == 2
\* np.asarray(x, dtype=dtype): float64 keeps the value, float32 rounds it to
\* the nearest representable one
asarray(x) == IF use_double THEN x ELSE F32Step * ((x + 1) \div F32Step)

set_nnps ==
    /\ pc = "idle"
    /\ nnps' = "nnps"
    /\ UNCHANGED <<cfgVars, one_timestep, helperVars, boundVars, parallel_manager,
                   post_stage_callback, timeVars, pc, error, ip, stageVars, caller,
                   envVars, trace>>

set_parallel_manager ==
    /\ pc = "idle"
    /\ parallel_manager' = "pm"
    /\ UNCHANGED <<cfgVars, one_timestep, helperVars, boundVars, nnps, post_stage_callback,
                   timeVars, pc, error, ip, stageVars, caller, envVars, trace>>

set_post_stage_callback ==
    /\ pc = "idle"
    /\ post_stage_callback' = "callback"
    /\ UNCHANGED <<cfgVars, one_timestep, helperVars, boundVars, nnps, parallel_manager,
                   timeVars, pc, error, ip, stageVars, caller, envVars, trace>>

\* the application changes an array between two calls of the runtime
application_update ==
    /\ pc = "idle"
    /\ EnvChange
    /\ UNCHANGED <<cfgVars, one_timestep, helperVars, boundVars, wireVars, timeVars, pc,
                   error, ip, stageVars, caller, trace>>

\* the (t, dt) pairs step is called with
StepInputs == {<<0, 1>>, <<1, 2>>}

step ==
    /\ pc = "idle"
    /\ \E in \in StepInputs :
          /\ orig_t' = in[1]
          /\ t' = in[1]
          /\ dt' = in[2]
          /\ step_args' = in
    /\ attrs' = {"orig_t", "t", "dt"}
    /\ pc' = "one_timestep"
    /\ ip' = 1
    /\ caller' = "step"
    /\ UNCHANGED <<cfgVars, one_timestep, helperVars, boundVars, wireVars, error, stageVars,
                   envVars, trace>>

\* the statement one_timestep is at
AtStatement(names) ==
    /\ pc = "one_timestep"
    /\ ip <= Len(one_timestep)
    /\ one_timestep[ip].name \in names

\* mutant: the kernels are launched before the py_ methods are called
StagePlan_KernelsFirst(py_call_info, call_info) ==
    [j \in 1..Len(call_info) |-> <<"call", j>>]
      \o [j \in 1..Len(py_call_info) |-> <<"py_meth", j>>]

\* the iterations of _do_stage, in order: the py_ method of every entry of
\* py_call_info, then the kernel of every entry of call_info (lines 61-70)
StagePlan(py_call_info, call_info) ==
    [j \in 1..Len(py_call_info) |-> <<"py_meth", j>>]
      \o [j \in 1..Len(call_info) |-> <<"call", j>>]

\* mutant: a stage that has finished refreshes the accelerations before it returns
StageGoto_Recompute(rem, meth, extra) ==
    IF rem = <<>>
    THEN /\ pc' = IF nnps # None THEN "nnps_update" ELSE "one_timestep"
         /\ ip' = IF nnps # None THEN ip ELSE ip + 1
         /\ method' = None
         /\ todo' = <<>>
         /\ extra_args' = <<>>
         /\ rest' = <<>>
    ELSE /\ pc' = IF Head(rem)[1] = "py_meth" THEN "py_meth" ELSE "args"
         /\ todo' = rem
         /\ method' = meth
         /\ extra_args' = extra
         /\ UNCHANGED <<ip, rest>>

\* _do_stage goes on with the iterations rem, or returns to one_timestep
StageGoto(rem, meth, extra) ==
    IF rem = <<>>
    THEN /\ pc' = "one_timestep"
         /\ ip' = ip + 1
         /\ method' = None
         /\ todo' = <<>>
         /\ extra_args' = <<>>
         /\ rest' = <<>>
    ELSE /\ pc' = IF Head(rem)[1] = "py_meth" THEN "py_meth" ELSE "args"
         /\ todo' = rem
         /\ method' = meth
         /\ extra_args' = extra
         /\ UNCHANGED <<ip, rest>>

\* mutant: the scalars are taken from the origin of the step
ExtraArgs_Origin == <<asarray(orig_t), asarray(dt)>>

\* extra_args = [np.asarray(self.t, dtype=dtype), np.asarray(self.dt, dtype=dtype)]
ExtraArgs == <<asarray(t), asarray(dt)>>

\* self.<name>() for a stage: _do_stage up to its first loop (lines 55-59)
_do_stage ==
    /\ AtStatement(methods)
    /\ LET meth == one_timestep[ip].name
       IN /\ calls' = DTouch(calls, meth)
          /\ py_calls' = DTouch(py_calls, PyName(meth))
          /\ StageGoto(StagePlan(DGet(py_calls, PyName(meth)), DGet(calls, meth)),
                       meth, ExtraArgs)
    /\ UNCHANGED <<cfgVars, one_timestep, py_data, data, code, boundVars, wireVars, timeVars,
                   error, caller, envVars, trace>>

\* self.<name> is not an attribute of the runtime
attribute_error ==
    /\ AtStatement(MethodNames \ methods)
    /\ Raise("AttributeError")
    /\ UNCHANGED <<cfgVars, one_timestep, helperVars, boundVars, wireVars, timeVars, ip,
                   stageVars, caller, envVars, trace>>

\* py_meth(dest, *extra_args) (lines 61-62)
py_meth_call ==
    /\ pc = "py_meth"
    /\ LET e == py_calls[PyName(method)][Head(todo)[2]].val
       IN trace' = Append(trace, Event("hook", method, e.dest,
                                       <<e.py_meth, e.dest>> \o extra_args, <<>>))
    /\ \/ /\ EnvEffect
          /\ StageGoto(Tail(todo), method, extra_args)
          /\ UNCHANGED error
       \/ /\ Raise("CollaboratorError")
          /\ UNCHANGED <<ip, stageVars, envVars>>
    /\ UNCHANGED <<cfgVars, one_timestep, helperVars, boundVars, wireVars, timeVars, caller>>

\* mutant: the count stored in a call descriptor of the array by an earlier
\* launch is used again
get_number_of_particles_Cached(dest) ==
    LET descs == UNION {{calls[m][j].val : j \in 1..Len(calls[m])} : m \in DOMAIN calls}
        stored == {e.args[2] : e \in {e \in descs : e.dest = dest /\ e.args[2] # NoSize}}
    IN IF stored = {} THEN count[ArrayName(dest)] ELSE (CHOOSE a \in stored : TRUE)[1]

\* dest.get_number_of_particles(real=True)
get_number_of_particles(dest) == count[ArrayName(dest)]

\* mutant: the assignment replaces the rest of the list: args[1:] = [(n,), None]
StoreSize_Slice(args, n) == <<args[1], <<n>>, args[3]>>

\* args[1] = (n,) (line 67): the global size is stored in the descriptor's list
StoreSize(args, n) == [args EXCEPT ![2] = <<n>>]

\* n = dest.get_number_of_particles(real=True); args[1] = (n,);
\* rest = [x() for x in args[3:]] (lines 66-69)
prepare_args ==
    /\ pc = "args"
    /\ LET j == Head(todo)[2]
           dest == calls[method][j].val.dest
           args == calls[method][j].val.args
           n == get_number_of_particles(dest)
           args1 == StoreSize(args, n)
       IN \/ /\ calls' = [calls EXCEPT ![method][j].val.args = args1]
             /\ rest' = [k \in 1..(Len(args1) - 3) |->
                            _getter(args1[k + 3].dest_gpu, args1[k + 3].x)]
             /\ trace' = trace \o <<Event("count", method, dest, <<TRUE>>, <<>>),
                                    Event("resolve", method, dest, <<>>, <<>>)>>
             /\ pc' = "call"
             /\ UNCHANGED error
          \/ /\ trace' = Append(trace, Event("count", method, dest, <<TRUE>>, <<>>))
             /\ Raise("CollaboratorError")
             /\ UNCHANGED <<calls, rest>>
    /\ UNCHANGED <<cfgVars, one_timestep, py_data, data, code, py_calls, boundVars, wireVars,
                   timeVars, ip, method, todo, extra_args, caller, envVars>>

\* the live state of an array when one of its kernels is launched
Live(dest, meth) ==
    [n |-> count[ArrayName(dest)],
     bufs |-> [k \in 1..Len(get_array_names(ArrayName(dest), meth)) |->
                  BufferAddress(ArrayName(dest),
                                StripPrefix(get_array_names(ArrayName(dest), meth)[k]))]]

\* call(*(args[:3] + rest + extra_args)) (line 70)
kernel_call ==
    /\ pc = "call"
    /\ LET e == calls[method][Head(todo)[2]].val
       IN trace' = Append(trace, Event("launch", method, e.dest,
                                       SubSeq(e.args, 1, 3) \o rest \o extra_args,
                                       Live(e.dest, method)))
    /\ \/ /\ StageGoto(Tail(todo), method, extra_args)
          /\ UNCHANGED error
       \/ /\ Raise("CollaboratorError")
          /\ UNCHANGED <<ip, stageVars>>
    /\ UNCHANGED <<cfgVars, one_timestep, helperVars, boundVars, wireVars, timeVars, caller,
                   envVars>>

\* mutant: the domain manager is not updated
CAEntry_IndexOnly == "nnps_update"

\* compute_accelerations up to its first call (line 83)
CAEntry == IF parallel_manager # None THEN "pm_update" ELSE "nnps_update"

\* self.compute_accelerations() in one_timestep
compute_accelerations ==
    /\ AtStatement({"compute_accelerations"})
    /\ pc' = CAEntry
    /\ UNCHANGED <<cfgVars, one_timestep, helperVars, boundVars, wireVars, timeVars, error,
                   ip, stageVars, caller, envVars, trace>>

\* compute_accelerations() called by the user of the runtime
call_compute_accelerations ==
    /\ pc = "idle"
    /\ pc' = CAEntry
    /\ caller' = "user"
    /\ UNCHANGED <<cfgVars, one_timestep, helperVars, boundVars, wireVars, timeVars, error,
                   ip, stageVars, envVars, trace>>

\* self.parallel_manager.update() (line 84)
parallel_manager_update ==
    /\ pc = "pm_update"
    /\ trace' = Append(trace, Event("pm_update", None, None, <<>>, <<>>))
    /\ \/ /\ EnvEffect
          /\ pc' = "nnps_update"
          /\ UNCHANGED error
       \/ /\ Raise("CollaboratorError")
          /\ UNCHANGED envVars
    /\ UNCHANGED <<cfgVars, one_timestep, helperVars, boundVars, wireVars, timeVars, ip,
                   stageVars, caller>>

\* self.nnps.update() (line 85)
nnps_update ==
    /\ pc = "nnps_update"
    /\ IF nnps = None
       THEN /\ Raise("AttributeError")
            /\ UNCHANGED trace
       ELSE /\ trace' = Append(trace, Event("nnps_update", None, None, <<>>, <<>>))
            /\ \/ /\ pc' = "acceleration_eval"
                  /\ UNCHANGED error
               \/ Raise("CollaboratorError")
    /\ UNCHANGED <<cfgVars, one_timestep, helperVars, boundVars, wireVars, timeVars, ip,
                   stageVars, caller, envVars>>

\* self.acceleration_eval.compute(self.t, self.dt) (line 88)
acceleration_eval_compute ==
    /\ pc = "acceleration_eval"
    /\ IF "t" \notin attrs \/ "dt" \notin attrs
       THEN /\ Raise("AttributeError")
            /\ UNCHANGED <<trace, ip>>
       ELSE /\ trace' = Append(trace, Event("compute", None, None, <<t, dt>>, <<>>))
            /\ \/ /\ pc' = IF caller = "step" THEN "one_timestep" ELSE "return"
                  /\ ip' = IF caller = "step" THEN ip + 1 ELSE ip
                  /\ UNCHANGED error
               \/ /\ Raise("CollaboratorError")
                  /\ UNCHANGED ip
    /\ UNCHANGED <<cfgVars, one_timestep, helperVars, boundVars, wireVars, timeVars,
                   stageVars, caller, envVars>>

\* mutant: the stage time is added to the current time
PostStageTime_Accumulated(stage_dt) == t + stage_dt

\* self.orig_t + stage_dt (line 103)
PostStageTime(stage_dt) == orig_t + stage_dt

\* self.do_post_stage(stage_dt, stage) in one_timestep (lines 103-105)
do_post_stage ==
    /\ AtStatement({"do_post_stage"})
    /\ LET stage_dt == one_timestep[ip].args[1] * dt
           stage == one_timestep[ip].args[2]
       IN /\ t' = PostStageTime(stage_dt)
          /\ IF post_stage_callback # None
             THEN /\ trace' = Append(trace, Event("callback", None, None,
                                                  <<t', dt, stage>>, <<>>))
                  /\ \/ /\ EnvEffect
                        /\ ip' = ip + 1
                        /\ UNCHANGED <<pc, error>>
                     \/ /\ Raise("CollaboratorError")
                        /\ UNCHANGED <<ip, envVars>>
             ELSE /\ ip' = ip + 1
                  /\ UNCHANGED <<pc, error, trace, envVars>>
    /\ UNCHANGED <<cfgVars, one_timestep, helperVars, boundVars, wireVars, attrs, orig_t, dt,
                   step_args, stageVars, caller>>

\* one_timestep returns, and step with it
one_timestep_return ==
    /\ pc = "one_timestep"
    /\ ip > Len(one_timestep)
    /\ pc' = "idle"
    /\ ip' = 0
    /\ caller' = None
    /\ trace' = <<>>
    /\ UNCHANGED <<cfgVars, one_timestep, helperVars, boundVars, wireVars, timeVars, error,
                   stageVars, envVars>>

\* compute_accelerations returns to the user
compute_accelerations_return ==
    /\ pc = "return"
    /\ pc' = "idle"
    /\ caller' = None
    /\ trace' = <<>>
    /\ UNCHANGED <<cfgVars, one_timestep, helperVars, boundVars, wireVars, timeVars, error,
                   ip, stageVars, envVars>>

(***************************************************************************)
(* Configurations and specifications.                                      *)
(***************************************************************************)
Rule(stages, hooks) == [stages |-> stages, hooks |-> hooks]
Entry(k, v) == [key |-> k, val |-> v]

\* the registrations of update rules: one destination with a single stage;
\* two destinations of which one lacks stage2, with a hook for stage1 only;
\* and the same with hooks on both destinations, one of them for a stage its
\* rule has no kernel for
ScenarioSteppers ==
    { <<Entry("fluid", Rule({"stage1"}, {}))>>,
      <<Entry("fluid", Rule({"stage1", "stage2"}, {"stage1"})),
        Entry("boundary", Rule({"stage1"}, {}))>>,
      <<Entry("fluid", Rule({"stage1", "stage2"}, {"stage1"})),
        Entry("boundary", Rule({"stage1"}, {"stage1", "stage2"}))>> }

FidelityProgram ==
    <<RunStage("stage1"), RecomputeAccelerations, RunStage("stage2"), PostStageMark(2, 2)>>

\* a predictor-corrector timestep: do_post_stage(dt/2, 1) ... do_post_stage(dt, 2)
PECProgram ==
    <<RunStage("initialize"), RunStage("stage1"), PostStageMark(1, 1),
      RecomputeAccelerations, RunStage("stage2"), PostStageMark(2, 2)>>

ScenarioPrograms == {FidelityProgram, PECProgram}

AllPrograms == SeqsUpTo(Ops, MaxProgLen) \cup ScenarioPrograms

Init ==
    /\ steppers \in ScenarioSteppers
    /\ program \in AllPrograms
    /\ use_double \in BOOLEAN
    /\ array_names \in {StepperKeys} \cup {StepperKeys \ {d} : d \in StepperKeys}
    /\ compiled_object = None
    /\ code = EmptyDict
    /\ one_timestep = <<>>
    /\ py_data = EmptyDict
    /\ data = EmptyDict
    /\ py_calls = EmptyDict
    /\ calls = EmptyDict
    /\ methods = {}
    /\ nnps = None
    /\ parallel_manager = None
    /\ post_stage_callback = None
    /\ attrs = {}
    /\ t = 0
    /\ orig_t = 0
    /\ dt = 0
    /\ step_args = <<>>
    /\ pc = "new"
    /\ error = None
    /\ ip = 0
    /\ method = None
    /\ todo = <<>>
    /\ extra_args = <<>>
    /\ rest = <<>>
    /\ caller = None
    /\ count = [d \in StepperKeys |-> 1]
    /\ gen = [d \in StepperKeys |-> 0]
    /\ changes = 0
    /\ trace = <<>>

Next ==
    \/ get_code
    \/ setup_compiled_module
    \/ set_nnps
    \/ set_parallel_manager
    \/ set_post_stage_callback
    \/ application_update
    \/ step
    \/ _do_stage
    \/ attribute_error
    \/ py_meth_call
    \/ prepare_args
    \/ kernel_call
    \/ compute_accelerations
    \/ call_compute_accelerations
    \/ parallel_manager_update
    \/ nnps_update
    \/ acceleration_eval_compute
    \/ do_post_stage
    \/ one_timestep_return
    \/ compute_accelerations_return

Spec == Init /\ [][Next]_vars


(***************************************************************************)
(* Properties.  trace holds the calls made by the call in progress; an     *)
(* operation of the program is complete once ip has moved past it.         *)
(***************************************************************************)
StageKinds == {"hook", "count", "resolve", "launch"}
AccelerationKinds == {"pm_update", "nnps_update", "compute"}
InStep == caller = "step"
EventsAt(k, kinds) == {j \in 1..Len(trace) : trace[j].at = k /\ trace[j].kind \in kinds}
EventsFor(k, kinds, d) == {j \in EventsAt(k, kinds) : ArrayName(trace[j].dest) = d}
Completed(k) == InStep /\ k \in 1..Len(program) /\ k < ip
StepComplete == InStep /\ pc = "one_timestep" /\ ip > Len(program)
Defining(meth) == {d \in StepperKeys : meth \in Stepper(d).stages}
Hooking(meth) == {d \in StepperKeys : meth \in Stepper(d).hooks}

\* C1: during step every call is made by the operation of the authored
\* program it belongs to, the calls follow the authored order, and every
\* completed operation has been executed exactly once: one evaluator call per
\* RecomputeAccelerations, one callback (if one is registered) per
\* PostStageMark with that mark's stage index, one launch per destination that
\* defines the stage per RunStage.
C1_ProgramFidelity ==
    InStep =>
      /\ ip <= Len(program) + 1
      /\ \A j \in 1..Len(trace), k \in 1..Len(trace) : j < k => trace[j].at <= trace[k].at
      /\ \A j \in 1..Len(trace) :
            /\ trace[j].at \in 1..Len(program)
            /\ trace[j].at <= ip
            /\ LET e == trace[j]
                   op == program[e.at]
               IN /\ e.kind \in StageKinds => op = RunStage(e.method)
                  /\ e.kind \in AccelerationKinds => op = RecomputeAccelerations
                  /\ e.kind = "callback" =>
                        op.op = "PostStageMark" /\ e.args[3] = op.stage
      /\ \A k \in 1..Len(program) :
            Completed(k) =>
              /\ Cardinality(EventsAt(k, {"compute"})) =
                    IF program[k].op = "RecomputeAccelerations" THEN 1 ELSE 0
              /\ Cardinality(EventsAt(k, {"callback"})) =
                    IF program[k].op = "PostStageMark" /\ post_stage_callback # None
                    THEN 1 ELSE 0
              /\ Cardinality(EventsAt(k, {"launch"})) =
                    IF program[k].op = "RunStage"
                    THEN Cardinality(Defining(program[k].name)) ELSE 0

\* the fidelity scenario has run to its end with a callback registered
C1_Witness ==
    /\ StepComplete
    /\ program = FidelityProgram
    /\ post_stage_callback # None
    /\ EventsAt(1, {"launch"}) # {}
    /\ EventsAt(2, {"compute"}) # {}
    /\ EventsAt(3, {"launch"}) # {}
    /\ \E j \in EventsAt(4, {"callback"}) : trace[j].args[3] = 2

\* the order in which a stage run treats (destination, kind of call)
KindRank == [hook |-> 1, count |-> 2, resolve |-> 3, launch |-> 4]
DestRank(e) == NameRank[ArrayName(e.dest)]
Before(a, b) == a[1] < b[1] \/ (a[1] = b[1] /\ (a[2] < b[2] \/ (a[2] = b[2] /\ a[3] < b[3])))
SameStageRun(j, k) ==
    /\ j < k
    /\ trace[j].kind \in StageKinds
    /\ trace[k].kind \in StageKinds
    /\ trace[j].at = trace[k].at

\* C2 as claimed: a stage run treats one destination at a time in name order,
\* each with hook, count read, accessor resolution and launch in this order.
C2_PerDestination ==
    \A j \in 1..Len(trace), k \in 1..Len(trace) :
       SameStageRun(j, k) =>
          Before(<<0, DestRank(trace[j]), KindRank[trace[j].kind]>>,
                 <<0, DestRank(trace[k]), KindRank[trace[k].kind]>>)

\* C2 amended: a stage run first invokes the host hooks of all destinations
\* that have one, in name order, and then treats the destinations with a
\* kernel one at a time in name order, each with count read, accessor
\* resolution and launch in this order.
Phase(e) == IF e.kind = "hook" THEN 0 ELSE 1
C2_HooksThenKernels ==
    \A j \in 1..Len(trace), k \in 1..Len(trace) :
       SameStageRun(j, k) =>
          Before(<<Phase(trace[j]), DestRank(trace[j]), KindRank[trace[j].kind]>>,
                 <<Phase(trace[k]), DestRank(trace[k]), KindRank[trace[k].kind]>>)

\* a stage run has invoked the hooks of two destinations and launched the kernels of both
C2_Witness ==
    \E k \in 1..Len(program) :
       /\ Completed(k)
       /\ \A d \in DestNames :
             EventsFor(k, {"hook"}, d) # {} /\ EventsFor(k, {"launch"}, d) # {}

\* C3: a kernel of a (stage, destination) pair that has a host hook is launched
\* only after that hook has been invoked, and returned, in the same stage run.
C3_HookBeforeKernel ==
    \A j \in 1..Len(trace) :
       (trace[j].kind = "launch" /\ ArrayName(trace[j].dest) \in Hooking(trace[j].method)) =>
          /\ \E k \in EventsFor(trace[j].at, {"hook"}, ArrayName(trace[j].dest)) : k < j
          /\ \A k \in EventsFor(trace[j].at, {"hook"}, ArrayName(trace[j].dest)) : k < j

\* a kernel has been launched for a destination whose rule has a hook for the stage
C3_Witness ==
    \E j \in 1..Len(trace) :
       /\ trace[j].kind = "launch"
       /\ ArrayName(trace[j].dest) \in Hooking(trace[j].method)

\* C4: the global size passed to a kernel launch is the destination's live
\* particle count at the moment of the launch.
C4_CountFresh ==
    \A j \in 1..Len(trace) :
       trace[j].kind = "launch" => trace[j].args[2] = <<trace[j].live.n>>

\* a stage after the first launches with a count that changed after setup
C4_Witness ==
    \E j \in 1..Len(trace) :
       /\ trace[j].kind = "launch"
       /\ trace[j].at > 1
       /\ program[1].op = "RunStage"
       /\ trace[j].args[2] # <<1>>

\* C5: the buffer arguments of a kernel launch are the current addresses of
\* the destination's fields at the moment of the launch.
C5_LateBinding ==
    \A j \in 1..Len(trace) :
       trace[j].kind = "launch" =>
          SubSeq(trace[j].args, 4, 3 + Len(trace[j].live.bufs)) = trace[j].live.bufs

\* a kernel is launched after its destination's buffers were reallocated
C5_Witness ==
    \E j \in 1..Len(trace) :
       /\ trace[j].kind = "launch"
       /\ gen[ArrayName(trace[j].dest)] > 0
       /\ trace[j].args[4][3] > 0

\* C6 as claimed: a program that runs a stage no destination defines is
\* rejected at setup, so no call of a step of that program is ever made.
UndefinedStage == \E k \in 1..Len(program) :
                     program[k].op = "RunStage" /\ Defining(program[k].name) = {}
C6_RejectedAtSetup == (UndefinedStage /\ InStep) => trace = <<>>

\* C7: a completed RunStage has launched exactly one kernel for every
\* destination whose rule defines the stage and none for any other, and no
\* kernel is ever launched for a destination whose rule lacks the stage.
C7_LaunchPerDefiningDest ==
    /\ \A j \in 1..Len(trace) :
          trace[j].kind = "launch" => ArrayName(trace[j].dest) \in Defining(trace[j].method)
    /\ \A k \in 1..Len(program), d \in StepperKeys :
          (Completed(k) /\ program[k].op = "RunStage") =>
             Cardinality(EventsFor(k, {"launch"}, d)) =
                IF d \in Defining(program[k].name) THEN 1 ELSE 0

\* stage2 has run with fluid and boundary registered and launched for fluid only
C7_Witness ==
    \E k \in 1..Len(program) :
       /\ Completed(k)
       /\ program[k] = RunStage("stage2")
       /\ StepperKeys = {"fluid", "boundary"}
       /\ EventsFor(k, {"launch"}, "fluid") # {}
       /\ EventsFor(k, {"launch"}, "boundary") = {}

\* C8: a completed RunStage has invoked the host hook exactly once for every
\* destination whose rule has a hook for that stage and never for any other.
C8_HookPerHookingDest ==
    /\ \A j \in 1..Len(trace) :
          trace[j].kind = "hook" => ArrayName(trace[j].dest) \in Hooking(trace[j].method)
    /\ \A k \in 1..Len(program), d \in StepperKeys :
          (Completed(k) /\ program[k].op = "RunStage") =>
             Cardinality(EventsFor(k, {"hook"}, d)) =
                IF d \in Hooking(program[k].name) THEN 1 ELSE 0

\* stage1 and then stage2 have run for a rule with a hook for stage1 only
C8_Witness ==
    \E k1 \in 1..Len(program), k2 \in 1..Len(program) :
       /\ k1 < k2
       /\ Completed(k2)
       /\ program[k1] = RunStage("stage1")
       /\ program[k2] = RunStage("stage2")
       /\ Hooking("stage1") = {"fluid"}
       /\ Hooking("stage2") = {}
       /\ Cardinality(EventsFor(k1, {"hook"}, "fluid")) = 1
       /\ EventsAt(k2, {"hook"}) = {}
       /\ EventsFor(k2, {"launch"}, "fluid") # {}

\* C9: spatial-index updates, domain-manager updates and evaluator calls are
\* made only by RecomputeAccelerations operations, never by a RunStage or a
\* do_post_stage; each completed RecomputeAccelerations has made one
\* spatial-index update and one evaluator call, and one domain-manager update
\* if a domain manager is set.
C9_OnlyInRecompute ==
    InStep =>
      /\ \A j \in 1..Len(trace) :
            trace[j].kind \in AccelerationKinds =>
               program[trace[j].at].op = "RecomputeAccelerations"
      /\ \A k \in 1..Len(program) :
            Completed(k) =>
               LET n == IF program[k].op = "RecomputeAccelerations" THEN 1 ELSE 0
               IN /\ Cardinality(EventsAt(k, {"nnps_update"})) = n
                  /\ Cardinality(EventsAt(k, {"compute"})) = n
                  /\ Cardinality(EventsAt(k, {"pm_update"})) =
                        IF parallel_manager # None THEN n ELSE 0

\* a step with stage runs, a post-stage callback and a recomputation has completed
C9_Witness ==
    /\ StepComplete
    /\ parallel_manager # None
    /\ post_stage_callback # None
    /\ \E k \in 1..Len(program) : program[k].op = "RunStage" /\ EventsAt(k, {"launch"}) # {}
    /\ \E k \in 1..Len(program) : EventsAt(k, {"callback"}) # {}
    /\ Cardinality({j \in 1..Len(trace) : trace[j].kind = "nnps_update"}) =
          Cardinality({k \in 1..Len(program) : program[k].op = "RecomputeAccelerations"})
    /\ \E k \in 1..Len(program) : EventsAt(k, {"pm_update"}) # {}

\* C10 as claimed: compute_accelerations called on a runtime on which step has
\* never been called, with a spatial index set, does not fail by itself: it
\* ends only with an exception of a collaborator or by returning after one
\* evaluator call.
C10_StandaloneUsable ==
    (caller = "user" /\ nnps # None /\ attrs = {}) =>
       /\ error # "AttributeError"
       /\ pc = "return" => Cardinality({j \in 1..Len(trace) : trace[j].kind = "compute"}) = 1

\* the PostStageMark operations before operation k of the program
MarksBefore(k) == {m \in 1..Len(program) : m < k /\ program[m].op = "PostStageMark"}
LastMark(k) == CHOOSE m \in MarksBefore(k) : \A x \in MarksBefore(k) : x <= m
\* the time the claims expect when operation k of a step starts: the step's
\* input t, or that plus the stage_dt of the latest mark before k
TimeAt(k) ==
    IF MarksBefore(k) = {} THEN step_args[1]
    ELSE step_args[1] + program[LastMark(k)].mult * step_args[2]
\* the first operation of the program that has not set the time yet
Started ==
    IF ~InStep THEN Len(program) + 1
    ELSE IF pc = "failed" /\ EventsAt(ip, {"callback"}) # {} THEN ip + 1
    ELSE ip

\* C11: once step(t, dt) has been called, orig_t and dt are the step's inputs
\* throughout, the current time is the input t until the first do_post_stage
\* and orig_t + stage_dt of the latest do_post_stage after it (never the sum
\* of several marks), also after the step has returned; every callback is
\* invoked with (the updated time, dt, the mark's stage index), once per
\* completed mark if a callback is registered and never otherwise.
C11_TimeState ==
    step_args # <<>> =>
      /\ orig_t = step_args[1]
      /\ dt = step_args[2]
      /\ t = TimeAt(Started)
      /\ \A j \in 1..Len(trace) :
            trace[j].kind = "callback" =>
               /\ post_stage_callback # None
               /\ trace[j].args = <<TimeAt(trace[j].at + 1), step_args[2],
                                    program[trace[j].at].stage>>
      /\ \A k \in 1..Len(program) :
            (Completed(k) /\ program[k].op = "PostStageMark") =>
               Cardinality(EventsAt(k, {"callback"})) =
                  IF post_stage_callback # None THEN 1 ELSE 0

\* the predictor-corrector step(1, 2) has run both its marks: the time is
\* 1 + 2*2, not 1 + 1*2 + 2*2, and the callback was invoked for both
C11_Witness ==
    /\ StepComplete
    /\ program = PECProgram
    /\ step_args = <<1, 2>>
    /\ t = 5
    /\ post_stage_callback # None
    /\ \E j \in EventsAt(3, {"callback"}) : trace[j].args = <<3, 2, 1>>
    /\ \E j \in EventsAt(6, {"callback"}) : trace[j].args = <<5, 2, 2>>

\* C12: in every stage run of every step the kernels are launched in
\* increasing order of destination name, and so are the host hooks invoked,
\* whatever the order in which the rules were registered.
C12_NameOrder ==
    \A j \in 1..Len(trace), k \in 1..Len(trace) :
       (SameStageRun(j, k) /\ trace[j].kind = trace[k].kind
          /\ trace[j].kind \in {"hook", "launch"}) =>
             DestRank(trace[j]) < DestRank(trace[k])

\* fluid was registered before boundary; in a step after the first (stage2
\* has already been launched by an earlier step) stage1 has invoked the hooks
\* and launched the kernels of boundary and then fluid
C12_Witness ==
    /\ Keys(steppers) = <<"fluid", "boundary">>
    /\ program = <<RunStage("stage1"), RunStage("stage2")>>
    /\ InStep /\ pc = "one_timestep" /\ ip = 2
    /\ calls["stage2"][1].val.args[2] # NoSize
    /\ \E j \in EventsFor(1, {"launch"}, "boundary"), k \in EventsFor(1, {"launch"}, "fluid") :
          j < k
    /\ \E j \in EventsFor(1, {"hook"}, "boundary"), k \in EventsFor(1, {"hook"}, "fluid") :
          j < k

\* C13: a failure of a hook, a count read, a kernel launch, a collaborator of
\* compute_accelerations or a callback ends the call with that exception, and
\* once a call has failed nothing more is executed: no step of the program
\* follows, so the failing operation is not retried and no later launch,
\* hook, recomputation or callback of the timestep program runs.
C13_FailureAborts ==
    /\ [](error # None => pc = "failed")
    /\ [][error = None]_vars

\* the launch of stage1 failed in the predictor-corrector step: the step ended
\* there, with the mark, the recomputation and stage2 still to come
C13_Witness ==
    /\ pc = "failed"
    /\ error = "CollaboratorError"
    /\ InStep
    /\ program = PECProgram
    /\ nnps # None
    /\ post_stage_callback # None
    /\ ip = 2
    /\ trace[Len(trace)].kind = "launch"
    /\ \A j \in 1..Len(trace) : trace[j].at <= 2

\* the destination names that have a generated kernel or a registered host hook
TableNames(dd) == UNION {{dd[m][j].key : j \in 1..Len(dd[m])} : m \in DOMAIN dd}

\* C14: if the name-to-array table lacks a destination name that has a
\* generated kernel or a host hook, setup ends with an error and no runtime is
\* created or installed on the integrator; and whenever a runtime is installed,
\* no destination was left out: every generated kernel and every registered
\* hook has its descriptor.
C14_UnresolvedFailsSetup ==
    /\ (pc \notin {"new", "generated"}
          /\ \E d \in TableNames(data) \cup TableNames(py_data) : d \notin array_names) =>
             /\ pc = "failed"
             /\ error = "KeyError"
             /\ compiled_object = None
             /\ methods = {}
             /\ trace = <<>>
    /\ compiled_object # None =>
          /\ \A m \in DOMAIN data : \A j \in 1..Len(data[m]) :
                /\ m \in DOMAIN calls
                /\ \E k \in 1..Len(calls[m]) : calls[m][k].key = array_map(data[m][j].key)
          /\ \A m \in DOMAIN py_data : \A j \in 1..Len(py_data[m]) :
                /\ m \in DOMAIN py_calls
                /\ \E k \in 1..Len(py_calls[m]) :
                      py_calls[m][k].key = array_map(py_data[m][j].key)

\* setup failed at fluid, which the table does not hold, after the hook of
\* boundary had been entered: no runtime was installed
C14_Witness ==
    /\ pc = "failed"
    /\ error = "KeyError"
    /\ array_names = {"boundary"}
    /\ TableNames(data) = {"boundary", "fluid"}
    /\ DOMAIN py_calls # {}
    /\ compiled_object = None

\* C15: a kernel is launched with the queue, the particle count (as the global
\* size, followed by the unset local size), then one buffer of the destination
\* per array argument of the generated kernel signature, in the order of the
\* signature, and last the scalars of the stage, t and then dt, which are also
\* the last two arguments of the signature.
C15_ArgumentOrder ==
    \A j \in 1..Len(trace) :
       trace[j].kind = "launch" =>
          LET e == trace[j]
              sig == code[<<e.method, "_", ArrayName(e.dest)>>]
              nb == Len(sig) - 2
          IN /\ Len(e.args) = 3 + Len(sig)
             /\ e.args[1] = Queue
             /\ e.args[2] = <<e.live.n>>
             /\ e.args[3] = NoSize
             /\ \A k \in 1..nb :
                   /\ e.args[3 + k][1] = ArrayName(e.dest)
                   /\ e.args[3 + k][2] = StripPrefix(sig[k])
             /\ sig[nb + 1] = "t"
             /\ sig[nb + 2] = "dt"
             /\ e.args[3 + nb + 1] = asarray(TimeAt(e.at))
             /\ e.args[3 + nb + 2] = asarray(step_args[2])

\* stage2 of fluid, whose signature is (d_u, d_x, t, dt), has been launched
\* with the buffers of u and x in this order and with t and dt that differ
C15_Witness ==
    \E j \in 1..Len(trace) :
       /\ trace[j].kind = "launch"
       /\ trace[j].method = "stage2"
       /\ Len(trace[j].args) = 7
       /\ trace[j].args[4][2] = "u"
       /\ trace[j].args[5][2] = "x"
       /\ trace[j].args[6] = 0
       /\ trace[j].args[7] = 1

\* C16 as claimed: a host hook is invoked only for a destination that has a
\* kernel for the stage.
C16_HookOnlyWithKernel ==
    \A j \in 1..Len(trace) :
       trace[j].kind = "hook" => ArrayName(trace[j].dest) \in Defining(trace[j].method)

\* C16 amended: a stage run invokes a host hook only for destinations whose
\* rule defines a hook for that stage, and it does so whether or not the
\* destination has a kernel for the stage: a destination with a hook but no
\* kernel gets one hook invocation, and no count read, accessor resolution or
\* launch.
C16_HookWithoutKernel ==
    /\ \A j \in 1..Len(trace) :
          trace[j].kind = "hook" =>
             /\ program[trace[j].at] = RunStage(trace[j].method)
             /\ ArrayName(trace[j].dest) \in Hooking(trace[j].method)
    /\ \A k \in 1..Len(program) :
          (Completed(k) /\ program[k].op = "RunStage") =>
             \A d \in Hooking(program[k].name) \ Defining(program[k].name) :
                /\ Cardinality(EventsFor(k, {"hook"}, d)) = 1
                /\ EventsFor(k, {"count", "resolve", "launch"}, d) = {}

\* stage2 has run: boundary, whose rule has a hook but no kernel for stage2,
\* had its hook invoked and nothing launched, and fluid was launched
C16_Witness ==
    \E k \in 1..Len(program) :
       /\ Completed(k)
       /\ program[k] = RunStage("stage2")
       /\ "boundary" \in Hooking("stage2") \ Defining("stage2")
       /\ Cardinality(EventsFor(k, {"hook"}, "boundary")) = 1
       /\ EventsFor(k, {"launch"}, "boundary") = {}
       /\ EventsFor(k, {"launch"}, "fluid") # {}

\* the call before call j of the trace belongs to the same execution of
\* compute_accelerations and is of the given kind
PrecededBy(j, kind) ==
    /\ j > 1
    /\ trace[j - 1].kind = kind
    /\ trace[j - 1].at = trace[j].at

\* C17: in every execution of compute_accelerations, in a step or called by
\* the user, the evaluator is called only right after the spatial-index update
\* of that execution has returned, with the runtime's current t and dt; the
\* spatial-index update comes right after the domain-manager update if a
\* domain manager is set and first otherwise; the domain manager is updated
\* only if one is set; and an execution that has returned made exactly one
\* evaluator call.
C17_RecomputeOrder ==
    /\ \A j \in 1..Len(trace) :
          /\ trace[j].kind = "compute" =>
                /\ PrecededBy(j, "nnps_update")
                /\ trace[j].args = IF InStep THEN <<TimeAt(trace[j].at), step_args[2]>>
                                   ELSE <<t, dt>>
          /\ trace[j].kind = "nnps_update" =>
                IF parallel_manager # None
                THEN PrecededBy(j, "pm_update")
                ELSE ~ \E k \in 1..(j - 1) :
                          trace[k].at = trace[j].at /\ trace[k].kind \in AccelerationKinds
          /\ trace[j].kind = "pm_update" =>
                /\ parallel_manager # None
                /\ ~ \E k \in 1..(j - 1) :
                        trace[k].at = trace[j].at /\ trace[k].kind \in AccelerationKinds
    /\ \A k \in 1..Len(program) :
          (Completed(k) /\ program[k].op = "RecomputeAccelerations") =>
             Cardinality(EventsAt(k, {"compute"})) = 1
    /\ pc = "return" =>
          Cardinality({j \in 1..Len(trace) : trace[j].kind = "compute"}) = 1

\* the recomputation of the predictor-corrector step(1, 2), after the first
\* mark, updated the domain manager, then the spatial index, and then called
\* the evaluator with (3, 2)
C17_Witness ==
    /\ InStep
    /\ program = PECProgram
    /\ parallel_manager # None
    /\ step_args = <<1, 2>>
    /\ Completed(4)
    /\ \E j \in EventsAt(4, {"compute"}) :
          /\ trace[j].args = <<3, 2>>
          /\ trace[j - 1].kind = "nnps_update"
          /\ trace[j - 2].kind = "pm_update"

\* what the claims call a call descriptor and a hook descriptor: the (stage,
\* destination) pair with its kernel handle, destination and late accessors,
\* and the pair with its host callable and destination
Descriptors(tab) ==
    UNION {{[method |-> m, key |-> tab[m][j].key, call |-> tab[m][j].val.call,
             dest |-> tab[m][j].val.dest,
             accessors |-> SubSeq(tab[m][j].val.args, 4, Len(tab[m][j].val.args))] :
               j \in 1..Len(tab[m])} : m \in DOMAIN tab}
HookDescriptors(tab) ==
    UNION {{[method |-> m, key |-> tab[m][j].key, py_meth |-> tab[m][j].val.py_meth,
             dest |-> tab[m][j].val.dest] : j \in 1..Len(tab[m])} : m \in DOMAIN tab}

\* C18: once setup has built the tables, no step of the runtime (step, a stage
\* run, compute_accelerations, do_post_stage, a setter) changes the set of
\* (stage, destination) pairs that have a call descriptor or a hook descriptor,
\* nor any descriptor's kernel handle, destination or list of late accessors.
C18_TablesFixed ==
    [][(pc \notin {"new", "generated"}) =>
          /\ Descriptors(calls)' = Descriptors(calls)
          /\ HookDescriptors(py_calls)' = HookDescriptors(py_calls)]_vars

\* a step has returned: the lookup of a stage no destination has a kernel for
\* has added an empty entry to calls and the launches have stored their global
\* sizes in the descriptors, whose accessors are still in place
C18_Witness ==
    /\ pc = "idle"
    /\ attrs # {}
    /\ "initialize" \in DOMAIN calls
    /\ calls["initialize"] = <<>>
    /\ "stage1" \in DOMAIN calls
    /\ \A j \in 1..Len(calls["stage1"]) :
          /\ calls["stage1"][j].val.args[2] # NoSize
          /\ Len(calls["stage1"][j].val.args) = 5

\* the (t, dt) a hook or a kernel was called with: its last two arguments
Scalars(e) == SubSeq(e.args, Len(e.args) - 1, Len(e.args))

\* C19 as claimed: every hook and every launch of a stage run receives the
\* time the step has reached when the stage starts (the step's input t, or
\* orig_t + stage_dt of the latest do_post_stage) and the step's input dt.
C19_ExactPair ==
    \A j \in 1..Len(trace) :
       trace[j].kind \in {"hook", "launch"} =>
          Scalars(trace[j]) = <<TimeAt(trace[j].at), step_args[2]>>

\* C19 amended: every hook and every launch of a stage run receives the same
\* pair, which is that time and the step's input dt, each converted to the
\* precision of the runtime.
C19_CastPair ==
    /\ \A j \in 1..Len(trace) :
          trace[j].kind \in {"hook", "launch"} =>
             Scalars(trace[j]) = <<asarray(TimeAt(trace[j].at)), asarray(step_args[2])>>
    /\ \A j \in 1..Len(trace), k \in 1..Len(trace) :
          (SameStageRun(j, k) /\ trace[j].kind \in {"hook", "launch"}
             /\ trace[k].kind \in {"hook", "launch"}) =>
                Scalars(trace[j]) = Scalars(trace[k])

\* in single precision, a stage that runs after a mark has called a hook and
\* launched a kernel with the same pair, which is not the exact one
C19_Witness ==
    \E j \in 1..Len(trace), k \in 1..Len(trace) :
       /\ ~use_double
       /\ trace[j].kind = "hook"
       /\ trace[k].kind = "launch"
       /\ trace[j].at = trace[k].at
       /\ MarksBefore(trace[j].at) # {}
       /\ Scalars(trace[j]) = Scalars(trace[k])
       /\ Scalars(trace[j]) # <<TimeAt(trace[j].at), step_args[2]>>
       /\ Scalars(trace[j])[1] # asarray(step_args[1])

====
